---- MODULE Spec2Model ----
(***************************************************************************)
(* Model of the /recommend request handler of src/server.js: the weighted  *)
(* profile update, the response cache, the pending-request map, the        *)
(* per-platform dispatch and the generation gateway (generateWithAI and    *)
(* callGeminiWithRetry).                                                   *)
(*                                                                         *)
(* Strings are sequences of one-character strings so that toLowerCase,     *)
(* trim and template concatenation are computed.  Weights are exact        *)
(* rationals in lowest terms (the code uses IEEE doubles; a rounding of    *)
(* one product is not modelled).  One step of the model is one run of the  *)
(* JavaScript event loop between two awaits of one request.                *)
(***************************************************************************)
EXTENDS Integers, Sequences, FiniteSets, TLC

(***************************************************************************)
(* Bounds of the model                                                     *)
(***************************************************************************)
NumRequests == 2
MaxTicks == 1
MaxCandidates == 6

Reqs == 1..NumRequests

(***************************************************************************)
(* Strings                                                                 *)
(***************************************************************************)
UpperChars == <<"A","B","C","D","E","F","G","H","I","J","K","L","M",
                "N","O","P","Q","R","S","T","U","V","W","X","Y","Z">>
LowerChars == <<"a","b","c","d","e","f","g","h","i","j","k","l","m",
                "n","o","p","q","r","s","t","u","v","w","x","y","z">>
WhiteSpace == {" "}

ToLowerChar(c) ==
  IF \E i \in 1..Len(UpperChars) : UpperChars[i] = c
    THEN LowerChars[CHOOSE i \in 1..Len(UpperChars) : UpperChars[i] = c]
    ELSE c

toLowerCase(s) == [i \in 1..Len(s) |-> ToLowerChar(s[i])]

trim(s) ==
  LET keep == {i \in 1..Len(s) : s[i] \notin WhiteSpace}
  IN IF keep = {} THEN <<>>
     ELSE LET lo == CHOOSE i \in keep : \A j \in keep : i <= j
              hi == CHOOSE i \in keep : \A j \in keep : j <= i
          IN SubSeq(s, lo, hi)

includes(s, sub) ==
  \E i \in 0..Len(s) :
     /\ i + Len(sub) <= Len(s)
     /\ \A j \in 1..Len(sub) : s[i + j] = sub[j]

Min(a, b) == IF a <= b THEN a ELSE b
Max(a, b) == IF a >= b THEN a ELSE b

\* Array.prototype.slice(0, n)
slice0(s, n) == SubSeq(s, 1, Min(n, Len(s)))

(***************************************************************************)
(* Rational weights, kept in lowest terms                                  *)
(***************************************************************************)
RECURSIVE Gcd(_, _)
Gcd(a, b) == IF b = 0 THEN a ELSE Gcd(b, a % b)

Rat(n, d) == LET g == Gcd(n, d) IN [n |-> n \div g, d |-> d \div g]
\* terms are cancelled crosswise before multiplying, so that the products
\* stay small
RatMul(x, y) ==
  LET g1 == Gcd(x.n, y.d)
      g2 == Gcd(y.n, x.d)
  IN  [n |-> (x.n \div g1) * (y.n \div g2), d |-> (x.d \div g2) * (y.d \div g1)]
RatAdd(x, y) ==
  LET g == Gcd(x.d, y.d)
  IN  Rat(x.n * (y.d \div g) + y.n * (x.d \div g), (x.d \div g) * y.d)
RatZero == Rat(0, 1)
RatOne == Rat(1, 1)
\* b[1] - a[1] of the sort comparators: TRUE when x > y
\* (compared by integer parts, then by the reciprocals of the fractional parts)
RECURSIVE RatGreater(_, _)
RatGreater(x, y) ==
  LET qx == x.n \div x.d
      qy == y.n \div y.d
      rx == x.n % x.d
      ry == y.n % y.d
  IN  IF qx # qy THEN qx > qy
      ELSE IF rx = 0 THEN FALSE
      ELSE IF ry = 0 THEN TRUE
      ELSE RatGreater([n |-> y.d, d |-> ry], [n |-> x.d, d |-> rx])

Decay == Rat(98, 100)

(***************************************************************************)
(* String literals of src/server.js, as character sequences                *)
(***************************************************************************)
S_LeetCode == <<"L","e","e","t","C","o","d","e">>
S_HackerRank == <<"H","a","c","k","e","r","R","a","n","k">>
S_Coursera == <<"C","o","u","r","s","e","r","a">>
S_Udemy == <<"U","d","e","m","y">>
S_YouTube == <<"Y","o","u","T","u","b","e">>
S_EdX == <<"e","d","X">>
S_Practice == <<"p","r","a","c","t","i","c","e">>
S_Undefined == <<"u","n","d","e","f","i","n","e","d">>
S_Hyphen == <<"-">>
S_TopicPy == <<"P","y"," ">>
S_TopicPyLower == <<"p","y">>
S_TopicBlank == <<" ">>
S_Proto == <<"_","_","p","r","o","t","o","_","_">>
S_SomeDescription == <<"t","w","o"," ","s","u","m">>
S_Beginner == <<"b","e","g","i","n","n","e","r">>
S_Intermediate == <<"i","n","t","e","r","m","e","d","i","a","t","e">>
S_Advanced == <<"a","d","v","a","n","c","e","d">>
S_AIHints == <<"A","I"," ","H","i","n","t","s">>
S_SolutionStrategy == <<"S","o","l","u","t","i","o","n"," ","S","t","r","a","t","e","g","y">>
S_Hash == <<"#">>
S_InternalServerError == <<"I","n","t","e","r","n","a","l"," ","S","e","r","v","e","r"," ","E","r","r","o","r">>
S_PercentTwenty == <<"%","2","0">>

\* topicGraph[baseTopic] || [] for a baseTopic that inherits nothing (see
\* inheritedKey)
topicGraph(baseTopic) ==
  CASE baseTopic = <<"m","a","c","h","i","n","e"," ","l","e","a","r","n","i","n","g">> ->
       <<<<"d","e","e","p"," ","l","e","a","r","n","i","n","g">>,
         <<"n","e","u","r","a","l"," ","n","e","t","w","o","r","k","s">>,
         <<"a","i">>,
         <<"d","a","t","a"," ","s","c","i","e","n","c","e">>,
         <<"s","u","p","e","r","v","i","s","e","d"," ","l","e","a","r","n","i","n","g">>>>
    [] baseTopic = <<"d","a","t","a"," ","s","t","r","u","c","t","u","r","e","s">> ->
       <<<<"a","l","g","o","r","i","t","h","m","s">>,
         <<"t","i","m","e"," ","c","o","m","p","l","e","x","i","t","y">>,
         <<"r","e","c","u","r","s","i","o","n">>,
         <<"t","r","e","e","s">>,
         <<"g","r","a","p","h","s">>>>
    [] baseTopic = <<"d","b","m","s">> ->
       <<<<"s","q","l">>,
         <<"d","a","t","a","b","a","s","e"," ","d","e","s","i","g","n">>,
         <<"n","o","r","m","a","l","i","z","a","t","i","o","n">>,
         <<"t","r","a","n","s","a","c","t","i","o","n","s">>,
         <<"i","n","d","e","x","i","n","g">>>>
    [] baseTopic = <<"p","y","t","h","o","n">> ->
       <<<<"a","u","t","o","m","a","t","i","o","n">>,
         <<"d","a","t","a"," ","s","c","i","e","n","c","e">>,
         <<"f","l","a","s","k">>,
         <<"d","j","a","n","g","o">>,
         <<"p","a","n","d","a","s">>>>
    [] OTHER -> <<>>

(***************************************************************************)
(* Program constants                                                       *)
(***************************************************************************)
CACHE_TTL == 1000 * 60 * 30
RETRY_DELAY == 2000
MAX_RETRIES == 3
TOP_COURSES == 5
TOP_PROBLEMS == 5
TOP_VIDEOS == 3
TOP_TOPICS == 5

(***************************************************************************)
(* Weighted profile: the entries of user.weightedProfile in insertion      *)
(* order, each [topic, weight]                                             *)
(***************************************************************************)
EmptyProfile == <<>>

ProfileHas(wp, t) == \E i \in 1..Len(wp) : wp[i].topic = t
ProfileGet(wp, t) == wp[CHOOSE i \in 1..Len(wp) : wp[i].topic = t].weight
ProfileTopics(wp) == {wp[i].topic : i \in 1..Len(wp)}

\* obj[key] where obj is a plain object without an own property key: the
\* name "__proto__" yields Object.prototype, not undefined (of the other
\* inherited names only "constructor" is lowercase; it is not among the
\* topics of the model)
inheritedKey(key) == key = S_Proto

\* !topic
TopicFalsy(body) == ~body.hasTopic \/ body.topic = <<>>
\* !description
DescriptionFalsy(body) == ~body.hasDescription \/ body.description = <<>>

decayFirstKeyOnly(wp) ==
  [i \in 1..Len(wp) |->
     [topic |-> wp[i].topic,
      weight |-> IF i = 1 THEN RatMul(wp[i].weight, Decay) ELSE wp[i].weight]]
\* for (let key in user.weightedProfile) user.weightedProfile[key] *= 0.98
decayProfile(wp) ==
  [i \in 1..Len(wp) |->
     [topic |-> wp[i].topic, weight |-> RatMul(wp[i].weight, Decay)]]

\* if (topic && topic.trim() !== "") weightedProfile[normalized] = (old || 0) + 1
\* for "__proto__", old is Object.prototype, old + 1 is a string, and the
\* assignment of a string to __proto__ changes nothing
reinforceProfile(wp, body) ==
  IF ~TopicFalsy(body) /\ trim(body.topic) # <<>>
       /\ ~inheritedKey(trim(toLowerCase(body.topic)))
    THEN LET normalized == trim(toLowerCase(body.topic))
             old == IF ProfileHas(wp, normalized)
                         /\ ProfileGet(wp, normalized) # RatZero
                      THEN ProfileGet(wp, normalized)
                      ELSE RatZero
             new == [topic |-> normalized, weight |-> RatAdd(old, RatOne)]
         IN IF ProfileHas(wp, normalized)
              THEN [i \in 1..Len(wp) |->
                      IF wp[i].topic = normalized THEN new ELSE wp[i]]
              ELSE Append(wp, new)
    ELSE wp

\* lines 342-350: decay every weight, then reinforce the request's topic
updateProfile(wp, body) == reinforceProfile(decayProfile(wp), body)

\* stable sort, descending: Array.prototype.sort((a, b) => key(b) - key(a));
\* greater[i][j] tells whether the key of s[i] is greater than that of s[j]
SortDesc(s, greater) ==
  LET rank(i) ==
        Cardinality({j \in 1..Len(s) : greater[j][i]})
        + Cardinality({j \in 1..(i - 1) : ~greater[j][i] /\ ~greater[i][j]})
        + 1
  IN [p \in 1..Len(s) |-> s[CHOOSE i \in 1..Len(s) : rank(i) = p]]

\* b[1] - a[1] > 0
WeightGreater(wp) ==
  [i \in 1..Len(wp) |-> [j \in 1..Len(wp) |->
     RatGreater(wp[i].weight, wp[j].weight)]]

extractDominantTopics(wp) ==
  LET top == slice0(SortDesc(wp, WeightGreater(wp)), TOP_TOPICS)
  IN [i \in 1..Len(top) |-> toLowerCase(top[i].topic)]

(***************************************************************************)
(* Response cache                                                          *)
(***************************************************************************)
\* `${platform}-${activity_type}-${topic}`; an absent topic prints "undefined"
cacheKey(body) ==
  body.platform \o S_Hyphen \o body.activity_type \o S_Hyphen
    \o (IF body.hasTopic THEN body.topic ELSE S_Undefined)

isExpiredAtOrAfterTTL(entry, t) == t - entry.timestamp >= CACHE_TTL
\* Date.now() - entry.timestamp > CACHE_TTL
isExpired(entry, t) == t - entry.timestamp > CACHE_TTL

getCacheHitNever(cache, key, t) == FALSE
\* getCache(key) returns entry.data (an object, truthy) rather than null
getCacheHit(cache, key, t) ==
  key \in DOMAIN cache /\ ~isExpired(cache[key], t)

getCacheMapDeletesOnRead(cache, key, t) == [k \in DOMAIN cache \ {key} |-> cache[k]]
\* the map after getCache(key): an expired entry is deleted
getCacheMap(cache, key, t) ==
  IF key \in DOMAIN cache /\ isExpired(cache[key], t)
    THEN [k \in DOMAIN cache \ {key} |-> cache[k]]
    ELSE cache

setCache(cache, key, data, t) ==
  [k \in DOMAIN cache \cup {key} |->
     IF k = key THEN [data |-> data, timestamp |-> t] ELSE cache[k]]

mapDelete(m, key) == [k \in DOMAIN m \ {key} |-> m[k]]
mapSet(m, key, v) == [k \in DOMAIN m \cup {key} |-> IF k = key THEN v ELSE m[k]]

(***************************************************************************)
(* Scoring engine and the course-catalog branches                          *)
(***************************************************************************)
Bonus(cond, n) == IF cond THEN n ELSE 0

scoreCourse(courseTitle, topic, dominantTopics) ==
  LET title == toLowerCase(courseTitle)
      baseTopic == toLowerCase(topic)
      related == topicGraph(baseTopic)
  IN Bonus(includes(title, baseTopic), 5)
     + 3 * Cardinality({i \in 1..Len(related) : includes(title, related[i])})
     + 2 * Cardinality({i \in 1..Len(dominantTopics) :
                           includes(title, dominantTopics[i])})
     + Bonus(includes(title, S_Beginner), 1)
     + Bonus(includes(title, S_Intermediate), 2)
     + Bonus(includes(title, S_Advanced), 3)

\* related.forEach is not a function: topicGraph[baseTopic] is truthy and
\* not an array
scoreCourseThrows(topic) == inheritedKey(toLowerCase(topic))

RECURSIVE encodeURIComponent(_)
\* letters, digits and - _ . ! ~ * ' ( ) are kept; a space becomes %20
\* (other characters do not occur in the titles of the model)
encodeURIComponent(s) ==
  IF s = <<>> THEN <<>>
  ELSE (IF Head(s) = " " THEN S_PercentTwenty ELSE <<Head(s)>>)
         \o encodeURIComponent(Tail(s))

\* b.score - a.score > 0
ScoreGreater(scored) ==
  [i \in 1..Len(scored) |-> [j \in 1..Len(scored) |->
     scored[i].score > scored[j].score]]

courseraTitles(topic) ==
  << topic \o <<" ","F","o","u","n","d","a","t","i","o","n","s">>,
     <<"A","d","v","a","n","c","e","d"," ">> \o topic,
     topic \o <<" ","f","o","r"," ","B","e","g","i","n","n","e","r","s">>,
     topic \o <<" ","S","p","e","c","i","a","l","i","z","a","t","i","o","n">>,
     <<"P","r","a","c","t","i","c","a","l"," ">> \o topic \o <<" ","P","r","o","j","e","c","t","s">>,
     <<"A","I"," ","A","p","p","l","i","c","a","t","i","o","n","s"," ","i","n"," ">> \o topic >>

udemyTitles(topic) ==
  << topic \o <<" ","B","o","o","t","c","a","m","p">>,
     <<"C","o","m","p","l","e","t","e"," ">> \o topic \o <<" ","M","a","s","t","e","r","c","l","a","s","s">>,
     topic \o <<" ","Z","e","r","o"," ","t","o"," ","H","e","r","o">>,
     topic \o <<" ","I","n","t","e","r","v","i","e","w"," ","P","r","e","p","a","r","a","t","i","o","n">>,
     <<"H","a","n","d","s","-","O","n"," ">> \o topic \o <<" ","P","r","o","j","e","c","t","s">>,
     topic \o <<" ","f","o","r"," ","P","r","o","f","e","s","s","i","o","n","a","l","s">> >>

\* .map(score).sort((a,b) => b.score - a.score).slice(0,5)
rankCourses(titles, topic, dominantTopics) ==
  LET scored == [i \in 1..Len(titles) |->
                   [title |-> titles[i],
                    score |-> scoreCourse(titles[i], topic, dominantTopics)]]
  IN slice0(SortDesc(scored, ScoreGreater(scored)), TOP_COURSES)

courseraResult(topic, wp) ==
  LET ranked == rankCourses(courseraTitles(topic), topic, extractDominantTopics(wp))
  IN [recommendations |->
        [i \in 1..Len(ranked) |->
           [title |-> ranked[i].title,
            url |-> <<"h","t","t","p","s",":","/","/","w","w","w",".","c","o","u","r","s","e","r","a",".","o","r","g","/","s","e","a","r","c","h","?","q","u","e","r","y","=">> \o encodeURIComponent(ranked[i].title),
            reason |-> <<"R","e","c","o","m","m","e","n","d","e","d"," ","b","e","c","a","u","s","e"," ","i","t"," ","a","l","i","g","n","s"," ","w","i","t","h"," ","y","o","u","r"," ","i","n","t","e","r","e","s","t"," ","i","n"," ">> \o topic \o <<" ","a","n","d"," ","r","e","l","a","t","e","d"," ","a","r","e","a","s",".">>]]]

udemyResult(topic, wp) ==
  LET ranked == rankCourses(udemyTitles(topic), topic, extractDominantTopics(wp))
  IN [recommendations |->
        [i \in 1..Len(ranked) |->
           [title |-> ranked[i].title,
            url |-> <<"h","t","t","p","s",":","/","/","w","w","w",".","u","d","e","m","y",".","c","o","m","/","c","o","u","r","s","e","s","/","s","e","a","r","c","h","/","?","q","=">> \o encodeURIComponent(ranked[i].title),
            reason |-> <<"M","a","t","c","h","e","s"," ","y","o","u","r"," ","l","e","a","r","n","i","n","g"," ","p","a","t","t","e","r","n"," ","a","n","d"," ","s","t","r","e","n","g","t","h","e","n","s"," ","y","o","u","r"," ">> \o topic \o <<" ","e","x","p","e","r","t","i","s","e",".">>]]]

EmptyResult == [recommendations |-> <<>>]

(***************************************************************************)
(* Generation gateway: replies and the extraction of the JSON answer.      *)
(* A reply text is a sequence of tokens: the brackets "[", "]", "{", "}",  *)
(* member tokens (one "name": value pair each) and prose words.            *)
(***************************************************************************)
EmptyJsonArray == <<"[", "]">>

Members == {"similar_problems", "hints", "solution_outline",
            "title", "url", "reason"}

TextNone == <<>>
TextObject == <<"sure", "{", "similar_problems", "hints", "solution_outline", "}">>
TextPartialObject == <<"{", "similar_problems", "}">>
TextArray == <<"[", "{", "title", "url", "reason", "}", "]", "done">>
TextProse == <<"sorry">>

\* the texts an endpoint may answer with
ReplyTexts == {TextNone, TextObject, TextPartialObject, TextArray, TextProse}

\* the HTTP statuses of a failed endpoint call (an error without a response
\* is handled as any status other than 429)
ErrorStatuses == {429, 500}

\* response.data.candidates?.[0]?.content?.parts?.[0]?.text || "[]"
replyText(text) == IF text = <<>> THEN EmptyJsonArray ELSE text

allFailedThrows == [kind |-> "throw", text |-> <<>>]
\* the inner catch of generateWithAI: return "[]"
allFailed == [kind |-> "return", text |-> EmptyJsonArray]

retryOnAnyError(status, retries) == retries > 0
\* err.response?.status === 429 && retries > 0
shouldRetry(status, retries) == status = 429 /\ retries > 0

\* text.match(/\[[\s\S]*\]/) and text.match(/\{[\s\S]*\}/): from the first
\* opening bracket that has a closing one after it to the last closing one
matchStarts(text, open, close) ==
  {i \in 1..Len(text) :
     text[i] = open /\ \E j \in (i + 1)..Len(text) : text[j] = close}

hasMatch(text, open, close) == matchStarts(text, open, close) # {}

matchSpan(text, open, close) ==
  LET i == CHOOSE x \in matchStarts(text, open, close) :
              \A y \in matchStarts(text, open, close) : x <= y
      j == CHOOSE x \in 1..Len(text) :
              text[x] = close /\ \A y \in 1..Len(text) : text[y] = close => y <= x
  IN SubSeq(text, i, j)

\* JSON.parse on a span: "{" members "}" or "[" objects "]"
isJsonObject(t) ==
  /\ Len(t) >= 2
  /\ t[1] = "{"
  /\ t[Len(t)] = "}"
  /\ \A i \in 2..(Len(t) - 1) : t[i] \in Members

prevBrace(t, i) ==
  LET before == {j \in 2..(i - 1) : t[j] \in {"{", "}"}}
  IN IF before = {} THEN "}"
     ELSE t[CHOOSE j \in before : \A k \in before : k <= j]

isJsonArray(t) ==
  /\ Len(t) >= 2
  /\ t[1] = "["
  /\ t[Len(t)] = "]"
  /\ \A i \in 2..(Len(t) - 1) :
        \/ t[i] = "{" /\ prevBrace(t, i) = "}"
        \/ t[i] = "}" /\ prevBrace(t, i) = "{"
        \/ t[i] \in Members /\ prevBrace(t, i) = "{"
  /\ prevBrace(t, Len(t)) = "}"

memberValue(m) ==
  CASE m = "similar_problems" -> << [title |-> <<"p","1">>], [title |-> <<"p","2">>] >>
    [] m = "hints" -> << <<"h","1">>, <<"h","2">> >>
    [] m = "solution_outline" -> <<"o">>
    [] m = "title" -> <<"t">>
    [] m = "url" -> <<"u">>
    [] m = "reason" -> <<"r">>

objectValue(t) ==
  [m \in {t[i] : i \in 2..(Len(t) - 1)} |-> memberValue(m)]

arrayValue(t) ==
  LET opens == {i \in 2..(Len(t) - 1) : t[i] = "{"}
      kth(k) == CHOOSE i \in opens : Cardinality({j \in opens : j < i}) = k - 1
      closeOf(i) == CHOOSE j \in (i + 1)..Len(t) :
                       t[j] = "}" /\ \A x \in (i + 1)..(j - 1) : t[x] # "}"
  IN [k \in 1..Cardinality(opens) |->
        objectValue(SubSeq(t, kth(k), closeOf(kth(k))))]

RECURSIVE join(_, _)
join(list, sep) ==
  IF list = <<>> THEN <<>>
  ELSE IF Len(list) = 1 THEN list[1]
  ELSE list[1] \o sep \o join(Tail(list), sep)

\* rankWithGemini after generateWithAI returned text: null or the parsed array
rankWithGemini(text) ==
  IF ~hasMatch(text, "[", "]") THEN [isNull |-> TRUE, value |-> <<>>]
  ELSE IF ~isJsonArray(matchSpan(text, "[", "]"))
         THEN [isNull |-> TRUE, value |-> <<>>]
         ELSE [isNull |-> FALSE, value |-> arrayValue(matchSpan(text, "[", "]"))]

\* rankAndGenerate after generateWithAI returned text: throws or the object
rankAndGenerateThrows(text) ==
  \/ ~hasMatch(text, "{", "}")
  \/ ~isJsonObject(matchSpan(text, "{", "}"))

rankAndGenerate(text) == objectValue(matchSpan(text, "{", "}"))

\* the try block of the LeetCode and HackerRank branches throws when
\* ai.similar_problems cannot be spread or ai.hints has no join
assembleThrows(ai) ==
  \/ "similar_problems" \notin DOMAIN ai
  \/ "hints" \notin DOMAIN ai

hintsEntry(ai) ==
  [title |-> S_AIHints,
   description |-> join(ai["hints"], <<"\n", "\n">>),
   url |-> S_Hash]

solutionEntry(ai) ==
  IF "solution_outline" \in DOMAIN ai
    THEN [title |-> S_SolutionStrategy,
          description |-> ai["solution_outline"],
          url |-> S_Hash]
    ELSE [title |-> S_SolutionStrategy, url |-> S_Hash]

normalized(ai) ==
  [recommendations |->
     ai["similar_problems"] \o << hintsEntry(ai), solutionEntry(ai) >>]

rawFallbackThree(candidates) == [recommendations |-> slice0(candidates, TOP_VIDEOS)]
\* { recommendations: candidates.slice(0,5) }
rawFallback(candidates) == [recommendations |-> slice0(candidates, TOP_PROBLEMS)]

\* gen is what generateWithAI did: [kind |-> "return", text] or a throw
problemAIFailed(gen) ==
  \/ gen.kind = "throw"
  \/ rankAndGenerateThrows(gen.text)
  \/ assembleThrows(rankAndGenerate(gen.text))

problemResult(gen, candidates) ==
  IF problemAIFailed(gen)
    THEN rawFallback(candidates)
    ELSE normalized(rankAndGenerate(gen.text))

\* ranked || retrieved.slice(0,3): an array, even an empty one, is truthy
videoResult(gen, retrieved) ==
  LET ranked == rankWithGemini(gen.text)
  IN [recommendations |->
        IF ranked.isNull THEN slice0(retrieved, TOP_VIDEOS) ELSE ranked.value]

(***************************************************************************)
(* Provider adapters: the answer of the upstream is its number of items    *)
(***************************************************************************)
DigitChars == <<"1","2","3","4","5","6","7","8","9">>

leetCodeCandidate(i) ==
  [title |-> <<"q", DigitChars[i]>>,
   url |-> <<"l", "c", "/", DigitChars[i]>>]

youTubeCandidate(i) ==
  [title |-> <<"v", DigitChars[i]>>,
   url |-> <<"y", "t", "/", DigitChars[i]>>]

fetchLeetCodeCandidates(n) == [i \in 1..n |-> leetCodeCandidate(i)]
fetchYouTubeResults(n) == [i \in 1..n |-> youTubeCandidate(i)]

CandidateCounts == {0, 1, MaxCandidates}

(***************************************************************************)
(* Requests                                                                *)
(***************************************************************************)
Users == {"u1", "u2"}

Body(u, p, hasT, t, hasD) ==
  [userId |-> u, platform |-> p, activity_type |-> S_Practice,
   hasTopic |-> hasT, topic |-> t,
   hasDescription |-> hasD,
   description |-> IF hasD THEN S_SomeDescription ELSE <<>>]

\* the request bodies the clients of the model send
Bodies ==
  { Body("u1", S_LeetCode, TRUE, S_TopicPy, TRUE),
    Body("u2", S_LeetCode, TRUE, S_TopicPy, TRUE),
    Body("u1", S_LeetCode, TRUE, S_TopicPy, FALSE),
    Body("u1", S_HackerRank, TRUE, S_TopicPy, TRUE),
    Body("u1", S_YouTube, TRUE, S_TopicPy, FALSE),
    Body("u2", S_YouTube, TRUE, S_TopicPy, FALSE),
    Body("u1", S_YouTube, FALSE, <<>>, FALSE),
    Body("u1", S_YouTube, TRUE, S_TopicBlank, FALSE),
    Body("u2", S_YouTube, TRUE, S_TopicBlank, FALSE),
    Body("u1", S_Coursera, TRUE, S_TopicPyLower, FALSE),
    Body("u1", S_Coursera, TRUE, S_Proto, FALSE),
    Body("u2", S_Udemy, TRUE, S_TopicPy, FALSE),
    Body("u1", S_EdX, TRUE, S_TopicPyLower, FALSE) }

NoBody == Body("u1", <<>>, FALSE, <<>>, FALSE)

\* the profile store at start: u1 has a document, u2 has none
InitialStore ==
  [u \in {"u1"} |->
     << [topic |-> S_TopicPyLower, weight |-> Rat(3, 2)],
        [topic |-> <<"d","b","m","s">>, weight |-> Rat(1, 1)] >>]

OkResponse(result) == [status |-> 200, body |-> result]
ErrorResponse == [status |-> 500, body |-> [error |-> S_InternalServerError]]

(***************************************************************************)
(* State                                                                   *)
(***************************************************************************)
VARIABLES
  now,              \* Date.now()
  ticks,            \* number of Tick steps taken
  store,            \* the User collection: userId -> weightedProfile
  responseCache,    \* key -> [data, timestamp]
  pendingRequests,  \* key -> the request whose requestPromise is registered
  pc,               \* where each request's handler is suspended
  body,             \* req.body
  loaded,           \* the weightedProfile findOne returned (or {} when new)
  user,             \* the document the handler holds: [isNew, weightedProfile]
  lookup,           \* outcome of the handler's getCache: none, hit, miss, expired
  promise,          \* requestPromise: [state, value]
  joined,           \* the promise the handler returned: its owner (or 0) and
                    \* whether it was still pending then
  responses,        \* what was sent on res, in order
  candidates,       \* what the provider adapter returned
  retries,          \* the retries argument of the running callGeminiWithRetry
  timerSet,         \* when the retry timer was started
  aiLog,            \* the outbound calls of generateWithAI, in order
  aiReturn          \* how generateWithAI ended: [kind, text]

vars == << now, ticks, store, responseCache, pendingRequests, pc, body, loaded,
           user, lookup, promise, joined, responses, candidates, retries,
           timerSet, aiLog, aiReturn >>

NoPromise == [state |-> "none"]
PendingPromise == [state |-> "pending"]
RejectedPromise == [state |-> "rejected"]
Fulfilled(v) == [state |-> "fulfilled", value |-> v]

NotCalled == [kind |-> "none", text |-> <<>>]
NotJoined == [owner |-> 0, inFlight |-> FALSE]

Init ==
  /\ now = 0
  /\ ticks = 0
  /\ store = InitialStore
  /\ responseCache = [k \in {} |-> 0]
  /\ pendingRequests = [k \in {} |-> 0]
  /\ pc = [r \in Reqs |-> "new"]
  /\ body = [r \in Reqs |-> NoBody]
  /\ loaded = [r \in Reqs |-> EmptyProfile]
  /\ user = [r \in Reqs |-> [isNew |-> FALSE, weightedProfile |-> EmptyProfile]]
  /\ lookup = [r \in Reqs |-> "none"]
  /\ promise = [r \in Reqs |-> NoPromise]
  /\ joined = [r \in Reqs |-> NotJoined]
  /\ responses = [r \in Reqs |-> <<>>]
  /\ candidates = [r \in Reqs |-> <<>>]
  /\ retries = [r \in Reqs |-> 0]
  /\ timerSet = [r \in Reqs |-> 0]
  /\ aiLog = [r \in Reqs |-> <<>>]
  /\ aiReturn = [r \in Reqs |-> NotCalled]

(***************************************************************************)
(* The clock                                                               *)
(***************************************************************************)
Tick(d) ==
  /\ ticks < MaxTicks
  /\ ticks' = ticks + 1
  /\ now' = now + d
  /\ UNCHANGED << store, responseCache, pendingRequests, pc, body, loaded, user,
                  lookup, promise, joined, responses, candidates, retries,
                  timerSet, aiLog, aiReturn >>

(***************************************************************************)
(* app.post("/recommend"): arrival, profile load, decay, reinforce, save   *)
(***************************************************************************)
\* lines 318-334: the handler starts and awaits User.findOne
Arrive(r, b) ==
  /\ pc[r] = "new"
  /\ \A q \in Reqs : q < r => pc[q] # "new"
  /\ body' = [body EXCEPT ![r] = b]
  /\ pc' = [pc EXCEPT ![r] = "findOne"]
  /\ UNCHANGED << now, ticks, store, responseCache, pendingRequests, loaded,
                  user, lookup, promise, joined, responses, candidates,
                  retries, timerSet, aiLog, aiReturn >>

\* lines 548-551: the catch of the handler
Respond500(r) ==
  /\ responses' = [responses EXCEPT ![r] = Append(@, ErrorResponse)]
  /\ pc' = [pc EXCEPT ![r] = "done"]

\* lines 334-353: findOne resolves; create when absent, decay, reinforce,
\* then await user.save()
FindOneReturn(r) ==
  /\ pc[r] = "findOne"
  /\ LET u == body[r].userId
         isNew == u \notin DOMAIN store
         wp == IF isNew THEN EmptyProfile ELSE store[u]
     IN /\ loaded' = [loaded EXCEPT ![r] = wp]
        /\ user' = [user EXCEPT ![r] =
                      [isNew |-> isNew,
                       weightedProfile |-> updateProfile(wp, body[r])]]
  /\ pc' = [pc EXCEPT ![r] = "save"]
  /\ UNCHANGED << now, ticks, store, responseCache, pendingRequests, body,
                  lookup, promise, joined, responses, candidates, retries,
                  timerSet, aiLog, aiReturn >>

\* findOne rejects: the handler's catch answers 500
FindOneFail(r) ==
  /\ pc[r] = "findOne"
  /\ Respond500(r)
  /\ UNCHANGED << now, ticks, store, responseCache, pendingRequests, body,
                  loaded, user, lookup, promise, joined, candidates, retries,
                  timerSet, aiLog, aiReturn >>

\* user.save() rejects (always so for a second insert of a userId, which is
\* unique): the handler's catch answers 500
SaveFail(r) ==
  /\ pc[r] = "save"
  /\ Respond500(r)
  /\ UNCHANGED << now, ticks, store, responseCache, pendingRequests, body,
                  loaded, user, lookup, promise, joined, candidates, retries,
                  timerSet, aiLog, aiReturn >>

\* user.save() resolves: the document is stored
SaveCommit(r) ==
  /\ pc[r] = "save"
  /\ user[r].isNew => body[r].userId \notin DOMAIN store
  /\ store' = mapSet(store, body[r].userId, user[r].weightedProfile)

LookupOutcome(r) ==
  LET key == cacheKey(body[r])
  IN IF getCacheHit(responseCache, key, now) THEN "hit"
     ELSE IF key \in DOMAIN responseCache THEN "expired"
     ELSE "miss"

pendingHasNever(key) == FALSE
\* pendingRequests.has(cacheKey)
pendingHas(key) == key \in DOMAIN pendingRequests

\* lines 356-362: getCache finds a live entry, the handler answers with it
SaveReturnCacheHit(r) ==
  /\ SaveCommit(r)
  /\ getCacheHit(responseCache, cacheKey(body[r]), now)
  /\ lookup' = [lookup EXCEPT ![r] = "hit"]
  /\ responseCache' = getCacheMap(responseCache, cacheKey(body[r]), now)
  /\ responses' = [responses EXCEPT ![r] =
                     Append(@, OkResponse(responseCache[cacheKey(body[r])].data))]
  /\ pc' = [pc EXCEPT ![r] = "done"]
  /\ UNCHANGED << now, ticks, pendingRequests, body, loaded, user, promise,
                  joined, candidates, retries, timerSet, aiLog, aiReturn >>

\* lines 364-366: return pendingRequests.get(cacheKey); nothing is sent on res
SaveReturnJoin(r) ==
  /\ SaveCommit(r)
  /\ ~getCacheHit(responseCache, cacheKey(body[r]), now)
  /\ pendingHas(cacheKey(body[r]))
  /\ lookup' = [lookup EXCEPT ![r] = LookupOutcome(r)]
  /\ responseCache' = getCacheMap(responseCache, cacheKey(body[r]), now)
  /\ joined' = [joined EXCEPT ![r] =
                  [owner |-> pendingRequests[cacheKey(body[r])],
                   inFlight |->
                     promise[pendingRequests[cacheKey(body[r])]].state = "pending"]]
  /\ pc' = [pc EXCEPT ![r] = "done"]
  /\ UNCHANGED << now, ticks, pendingRequests, body, loaded, user, promise,
                  responses, candidates, retries, timerSet, aiLog, aiReturn >>

DispatchStartUnguarded(b, wp) ==
  CASE b.platform \in {S_LeetCode, S_HackerRank} ->
         [pc |-> "fetchLeetCode", promise |-> PendingPromise]
    [] b.platform = S_Coursera ->
         [pc |-> "awaitPromise",
          promise |-> IF scoreCourseThrows(b.topic) THEN RejectedPromise
                      ELSE Fulfilled(courseraResult(b.topic, wp))]
    [] b.platform = S_Udemy ->
         [pc |-> "awaitPromise",
          promise |-> IF scoreCourseThrows(b.topic) THEN RejectedPromise
                      ELSE Fulfilled(udemyResult(b.topic, wp))]
    [] b.platform = S_YouTube ->
         [pc |-> "fetchYouTube", promise |-> PendingPromise]
    [] OTHER -> [pc |-> "awaitPromise", promise |-> Fulfilled(EmptyResult)]
\* the part of the async function of line 369 that runs before its first await
\* (or to its end): the next position of the request and its promise
DispatchStart(b, wp) ==
  CASE b.platform \in {S_LeetCode, S_HackerRank} ->
         IF TopicFalsy(b) \/ DescriptionFalsy(b)
           THEN [pc |-> "awaitPromise", promise |-> Fulfilled(EmptyResult)]
           ELSE [pc |-> "fetchLeetCode", promise |-> PendingPromise]
    [] b.platform = S_Coursera ->
         [pc |-> "awaitPromise",
          promise |-> IF TopicFalsy(b) THEN Fulfilled(EmptyResult)
                      ELSE IF scoreCourseThrows(b.topic) THEN RejectedPromise
                      ELSE Fulfilled(courseraResult(b.topic, wp))]
    [] b.platform = S_Udemy ->
         [pc |-> "awaitPromise",
          promise |-> IF TopicFalsy(b) THEN Fulfilled(EmptyResult)
                      ELSE IF scoreCourseThrows(b.topic) THEN RejectedPromise
                      ELSE Fulfilled(udemyResult(b.topic, wp))]
    [] b.platform = S_YouTube ->
         IF TopicFalsy(b)
           THEN [pc |-> "awaitPromise", promise |-> Fulfilled(EmptyResult)]
           ELSE [pc |-> "fetchYouTube", promise |-> PendingPromise]
    [] OTHER -> [pc |-> "awaitPromise", promise |-> Fulfilled(EmptyResult)]

\* lines 369-543: cache and pending lookups miss; the computation starts, is
\* registered in pendingRequests and awaited
SaveReturnCompute(r) ==
  /\ SaveCommit(r)
  /\ ~getCacheHit(responseCache, cacheKey(body[r]), now)
  /\ ~pendingHas(cacheKey(body[r]))
  /\ lookup' = [lookup EXCEPT ![r] = LookupOutcome(r)]
  /\ responseCache' = getCacheMap(responseCache, cacheKey(body[r]), now)
  /\ LET start == DispatchStart(body[r], user[r].weightedProfile)
     IN /\ pc' = [pc EXCEPT ![r] = start.pc]
        /\ promise' = [promise EXCEPT ![r] = start.promise]
  /\ pendingRequests' = mapSet(pendingRequests, cacheKey(body[r]), r)
  /\ UNCHANGED << now, ticks, body, loaded, user, joined, responses,
                  candidates, retries, timerSet, aiLog, aiReturn >>

(***************************************************************************)
(* The computation: provider adapters                                      *)
(***************************************************************************)
Call(ep, waited) == [ep |-> ep, out |-> -1, waited |-> waited]
SetOut(log, out) == [log EXCEPT ![Len(log)].out = out]

\* generateWithAI is entered: callGeminiWithRetry(primaryURL, payload) with
\* retries = 3 posts to the primary endpoint
StartGeneration(r) ==
  /\ retries' = [retries EXCEPT ![r] = MAX_RETRIES]
  /\ aiLog' = [aiLog EXCEPT ![r] = << Call("primary", TRUE) >>]
  /\ pc' = [pc EXCEPT ![r] = "aiPrimary"]

\* the requestPromise settles; the handler is resumed in a later job
Settle(r, p) ==
  /\ promise' = [promise EXCEPT ![r] = p]
  /\ pc' = [pc EXCEPT ![r] = "awaitPromise"]

\* lines 377/421: the practice-problem adapter answers with n questions
FetchLeetCodeReturn(r, n) ==
  /\ pc[r] = "fetchLeetCode"
  /\ candidates' = [candidates EXCEPT ![r] = fetchLeetCodeCandidates(n)]
  /\ StartGeneration(r)
  /\ UNCHANGED << now, ticks, store, responseCache, pendingRequests, body,
                  loaded, user, lookup, promise, joined, responses, timerSet,
                  aiReturn >>

\* lines 377/421: the adapter call throws outside the try: the promise rejects
FetchLeetCodeFail(r) ==
  /\ pc[r] = "fetchLeetCode"
  /\ Settle(r, RejectedPromise)
  /\ UNCHANGED << now, ticks, store, responseCache, pendingRequests, body,
                  loaded, user, lookup, joined, responses, candidates, retries,
                  timerSet, aiLog, aiReturn >>

skipsGenerationNever(retrieved) == FALSE
\* if (!retrieved.length) return { recommendations: [] }
skipsGeneration(retrieved) == Len(retrieved) = 0

\* lines 522-529: the video adapter answers with n items; with none the
\* computation ends, otherwise rankWithGemini calls generateWithAI
FetchYouTubeReturn(r, n) ==
  /\ pc[r] = "fetchYouTube"
  /\ candidates' = [candidates EXCEPT ![r] = fetchYouTubeResults(n)]
  /\ IF skipsGeneration(fetchYouTubeResults(n))
       THEN /\ Settle(r, Fulfilled(EmptyResult))
            /\ UNCHANGED << retries, aiLog >>
       ELSE /\ StartGeneration(r)
            /\ UNCHANGED promise
  /\ UNCHANGED << now, ticks, store, responseCache, pendingRequests, body,
                  loaded, user, lookup, joined, responses, timerSet,
                  aiReturn >>

\* line 522: fetch or res.json throws: the promise rejects
FetchYouTubeFail(r) ==
  /\ pc[r] = "fetchYouTube"
  /\ Settle(r, RejectedPromise)
  /\ UNCHANGED << now, ticks, store, responseCache, pendingRequests, body,
                  loaded, user, lookup, joined, responses, candidates, retries,
                  timerSet, aiLog, aiReturn >>

(***************************************************************************)
(* The computation: generateWithAI and what the branch does with its text  *)
(***************************************************************************)
cachesFallbackAlways(platform) == TRUE
\* only the LeetCode branch stores its raw-candidate fallback (line 409)
cachesFallback(platform) == platform = S_LeetCode

\* generateWithAI ended as gen: the rest of the platform branch
FinishGeneration(r, gen) ==
  LET b == body[r]
      key == cacheKey(b)
  IN /\ aiReturn' = [aiReturn EXCEPT ![r] = gen]
     /\ IF b.platform = S_YouTube
          THEN IF gen.kind = "throw"
                 THEN /\ Settle(r, RejectedPromise)
                      /\ UNCHANGED responseCache
                 ELSE /\ Settle(r, Fulfilled(videoResult(gen, candidates[r])))
                      /\ responseCache' =
                           setCache(responseCache, key,
                                    videoResult(gen, candidates[r]), now)
          ELSE /\ Settle(r, Fulfilled(problemResult(gen, candidates[r])))
               /\ responseCache' =
                    IF problemAIFailed(gen) /\ ~cachesFallback(b.platform)
                      THEN responseCache
                      ELSE setCache(responseCache, key,
                                    problemResult(gen, candidates[r]), now)

\* line 155: the primary endpoint answers
PrimaryReply(r, text) ==
  /\ pc[r] = "aiPrimary"
  /\ aiLog' = [aiLog EXCEPT ![r] = SetOut(@, 200)]
  /\ FinishGeneration(r, [kind |-> "return", text |-> replyText(text)])
  /\ UNCHANGED << now, ticks, store, pendingRequests, body, loaded, user,
                  lookup, joined, responses, candidates, retries, timerSet >>

\* lines 557-559: rate limited with retries left: the 2 s timer is started
PrimaryRateLimited(r, status) ==
  /\ pc[r] = "aiPrimary"
  /\ shouldRetry(status, retries[r])
  /\ aiLog' = [aiLog EXCEPT ![r] = SetOut(@, status)]
  /\ timerSet' = [timerSet EXCEPT ![r] = now]
  /\ pc' = [pc EXCEPT ![r] = "aiDelay"]
  /\ UNCHANGED << now, ticks, store, responseCache, pendingRequests, body,
                  loaded, user, lookup, promise, joined, responses, candidates,
                  retries, aiReturn >>

\* setTimeout(res, 2000)
delay == RETRY_DELAY

\* line 560: the timer fires (time has passed), callGeminiWithRetry is called
\* with retries - 1 and posts to the primary endpoint again
RetryPrimary(r) ==
  /\ pc[r] = "aiDelay"
  /\ now' = Max(now, timerSet[r] + delay)
  /\ retries' = [retries EXCEPT ![r] = @ - 1]
  /\ aiLog' = [aiLog EXCEPT ![r] =
                 Append(@, Call("primary", now' - timerSet[r] >= RETRY_DELAY))]
  /\ pc' = [pc EXCEPT ![r] = "aiPrimary"]
  /\ UNCHANGED << ticks, store, responseCache, pendingRequests, body, loaded,
                  user, lookup, promise, joined, responses, candidates,
                  timerSet, aiReturn >>

\* lines 562, 157-160: the primary call fails for good; the fallback endpoint
\* is posted to
PrimaryFailed(r, status) ==
  /\ pc[r] = "aiPrimary"
  /\ ~shouldRetry(status, retries[r])
  /\ aiLog' = [aiLog EXCEPT ![r] =
                 Append(SetOut(@, status), Call("fallback", TRUE))]
  /\ pc' = [pc EXCEPT ![r] = "aiFallback"]
  /\ UNCHANGED << now, ticks, store, responseCache, pendingRequests, body,
                  loaded, user, lookup, promise, joined, responses, candidates,
                  retries, timerSet, aiReturn >>

\* line 161: the fallback endpoint answers
FallbackReply(r, text) ==
  /\ pc[r] = "aiFallback"
  /\ aiLog' = [aiLog EXCEPT ![r] = SetOut(@, 200)]
  /\ FinishGeneration(r, [kind |-> "return", text |-> replyText(text)])
  /\ UNCHANGED << now, ticks, store, pendingRequests, body, loaded, user,
                  lookup, joined, responses, candidates, retries, timerSet >>

\* lines 163-166: the fallback call fails too
FallbackFailed(r, status) ==
  /\ pc[r] = "aiFallback"
  /\ aiLog' = [aiLog EXCEPT ![r] = SetOut(@, status)]
  /\ FinishGeneration(r, allFailed)
  /\ UNCHANGED << now, ticks, store, pendingRequests, body, loaded, user,
                  lookup, joined, responses, candidates, retries, timerSet >>

(***************************************************************************)
(* The handler after await requestPromise                                  *)
(***************************************************************************)
\* lines 543-546: delete the pending entry and answer with the result
AwaitReturn(r) ==
  /\ pc[r] = "awaitPromise"
  /\ promise[r].state = "fulfilled"
  /\ pendingRequests' = mapDelete(pendingRequests, cacheKey(body[r]))
  /\ responses' = [responses EXCEPT ![r] = Append(@, OkResponse(promise[r].value))]
  /\ pc' = [pc EXCEPT ![r] = "done"]
  /\ UNCHANGED << now, ticks, store, responseCache, body, loaded, user, lookup,
                  promise, joined, candidates, retries, timerSet, aiLog,
                  aiReturn >>

\* lines 543, 548-551: the await throws, the delete of line 544 is skipped
AwaitThrow(r) ==
  /\ pc[r] = "awaitPromise"
  /\ promise[r].state = "rejected"
  /\ Respond500(r)
  /\ UNCHANGED << now, ticks, store, responseCache, pendingRequests, body,
                  loaded, user, lookup, promise, joined, candidates, retries,
                  timerSet, aiLog, aiReturn >>

(***************************************************************************)
(* Specifications                                                          *)
(***************************************************************************)
TickSteps == {CACHE_TTL, CACHE_TTL + 1}

\* the steps a request takes whatever the other requests do
Core(reqs, bodies, texts, statuses, counts) ==
  \/ \E d \in TickSteps : Tick(d)
  \/ \E r \in reqs, b \in bodies : Arrive(r, b)
  \/ \E r \in reqs : FindOneReturn(r)
  \/ \E r \in reqs : FindOneFail(r)
  \/ \E r \in reqs : SaveFail(r)
  \/ \E r \in reqs : SaveReturnCompute(r)
  \/ \E r \in reqs, n \in counts : FetchLeetCodeReturn(r, n)
  \/ \E r \in reqs : FetchLeetCodeFail(r)
  \/ \E r \in reqs, n \in counts : FetchYouTubeReturn(r, n)
  \/ \E r \in reqs : FetchYouTubeFail(r)
  \/ \E r \in reqs, text \in texts : PrimaryReply(r, text)
  \/ \E r \in reqs, status \in statuses : PrimaryFailed(r, status)
  \/ \E r \in reqs, text \in texts : FallbackReply(r, text)
  \/ \E r \in reqs, status \in statuses : FallbackFailed(r, status)
  \/ \E r \in reqs : AwaitReturn(r)
  \/ \E r \in reqs : AwaitThrow(r)

\* the steps that need an earlier request with the same key
Shared(reqs) ==
  \/ \E r \in reqs : SaveReturnCacheHit(r)
  \/ \E r \in reqs : SaveReturnJoin(r)

\* the rate-limit retry of callGeminiWithRetry
RateLimit(reqs, statuses) ==
  \/ \E r \in reqs, status \in statuses : PrimaryRateLimited(r, status)
  \/ \E r \in reqs : RetryPrimary(r)

\* Spec: NumRequests requests, interleaved at their awaits; the generation
\* endpoints answer or fail, and are never rate limited
ConcurrentBodies ==
  { Body("u1", S_LeetCode, TRUE, S_TopicPy, TRUE),
    Body("u2", S_LeetCode, TRUE, S_TopicPy, TRUE),
    Body("u1", S_LeetCode, TRUE, S_TopicPy, FALSE),
    Body("u1", S_HackerRank, TRUE, S_TopicPy, TRUE),
    Body("u1", S_YouTube, TRUE, S_TopicPy, FALSE),
    Body("u2", S_YouTube, TRUE, S_TopicPy, FALSE),
    Body("u1", S_YouTube, FALSE, <<>>, FALSE),
    Body("u1", S_YouTube, TRUE, S_TopicBlank, FALSE),
    Body("u1", S_Coursera, TRUE, S_TopicPyLower, FALSE),
    Body("u1", S_Coursera, TRUE, S_Proto, FALSE),
    Body("u2", S_Udemy, TRUE, S_TopicPy, FALSE),
    Body("u1", S_EdX, TRUE, S_TopicPyLower, FALSE) }
ConcurrentTexts == {TextObject, TextArray}
ConcurrentStatuses == {500}
ConcurrentCounts == {0, MaxCandidates}

Next ==
  \/ Core(Reqs, ConcurrentBodies, ConcurrentTexts, ConcurrentStatuses,
          ConcurrentCounts)
  \/ Shared(Reqs)

Spec == Init /\ [][Next]_vars

\* SpecSolo: one request with every body and every answer of the
\* collaborators, rate limiting included
Solo == {1}

NextSolo ==
  \/ Core(Solo, Bodies, ReplyTexts, ErrorStatuses, CandidateCounts)
  \/ RateLimit(Solo, ErrorStatuses)

SpecSolo == Init /\ [][NextSolo]_vars

(***************************************************************************)
(* Properties                                                              *)
(***************************************************************************)
Key(r) == cacheKey(body[r])
InFlight(r) == promise[r].state = "pending"
NonBlankTopic(r) == ~TopicFalsy(body[r]) /\ trim(body[r].topic) # <<>>
\* every outbound call of the log has returned, and with an error
AllCallsFailed(log) == \A i \in 1..Len(log) : log[i].out \notin {-1, 200}
FirstFive(s) == [i \in 1..Min(5, Len(s)) |-> s[i]]
\* the step in which request r runs getCache(cacheKey)
GetCacheStep(r) == pc[r] = "save" /\ lookup'[r] # "none"

\* C1: a request that reaches the dedup check while a computation for its
\* key is in flight starts no computation of its own, and once that
\* computation has produced its result and been answered, the request has
\* been answered with the same result.
C1_JoinedGetsSameAnswer ==
  \A r \in Reqs :
     (/\ joined[r].inFlight
      /\ pc[joined[r].owner] = "done"
      /\ promise[joined[r].owner].state = "fulfilled")
     => /\ promise[r].state = "none"
        /\ responses[r] = << OkResponse(promise[joined[r].owner].value) >>
        /\ responses[r] = responses[joined[r].owner]

\* C2: for every cache key at most one computation is in flight, and it is
\* the one registered in pendingRequests for that key.
C2_AtMostOneComputationPerKey ==
  \A r \in Reqs :
     InFlight(r) =>
       /\ Key(r) \in DOMAIN pendingRequests
       /\ pendingRequests[Key(r)] = r
       /\ \A q \in Reqs \ {r} : InFlight(q) => Key(q) # Key(r)

\* a request met the dedup check while the computation for its key, still
\* running, was in flight
C2_Witness ==
  \E r, q \in Reqs :
     /\ joined[q].inFlight
     /\ joined[q].owner = r
     /\ InFlight(r)
     /\ promise[q].state = "none"

\* C3: once the computation registered for a key has finished (resolved or
\* failed) and its handler is through, pendingRequests holds no entry for
\* that key.
C3_EntryRemovedAfterSettle ==
  \A k \in DOMAIN pendingRequests : pc[pendingRequests[k]] # "done"

\* C4: a getCache(k) at most 30 minutes after the setCache(k, d) that wrote
\* the entry answers d and leaves the entry in place; a later one answers
\* null and deletes the entry; an entry written by setCache holds the data
\* and the time of the write; entries disappear only by such a late read.
C4_Step ==
  /\ \A r \in Reqs :
        (GetCacheStep(r) /\ Key(r) \in DOMAIN responseCache) =>
          IF now - responseCache[Key(r)].timestamp <= 30 * 60 * 1000
            THEN /\ responses'[r] = << OkResponse(responseCache[Key(r)].data) >>
                 /\ lookup'[r] = "hit"
                 /\ responseCache' = responseCache
            ELSE /\ responses'[r] = << >>
                 /\ lookup'[r] = "expired"
                 /\ Key(r) \notin DOMAIN responseCache'
                 /\ \A k \in DOMAIN responseCache \ {Key(r)} :
                       k \in DOMAIN responseCache'
                       /\ responseCache'[k] = responseCache[k]
  /\ \A k \in DOMAIN responseCache :
        k \notin DOMAIN responseCache' =>
          \E r \in Reqs :
             /\ GetCacheStep(r)
             /\ Key(r) = k
             /\ now - responseCache[k].timestamp > 30 * 60 * 1000
  /\ \A k \in DOMAIN responseCache' :
        (k \notin DOMAIN responseCache \/ responseCache'[k] # responseCache[k]) =>
          /\ responseCache'[k].timestamp = now
          /\ \E r \in Reqs :
                /\ Key(r) = k
                /\ InFlight(r)
                /\ promise'[r] = Fulfilled(responseCache'[k].data)

C4_CacheRoundTrip == [][C4_Step]_vars

\* a read later than the TTL has answered null and deleted the entry
C4_Witness ==
  \E r \in Reqs :
     /\ lookup[r] = "expired"
     /\ Key(r) \notin DOMAIN responseCache
     /\ responses[r] = << >>

\* C5: generateWithAI never throws; it returns a text, and when every call
\* to the primary endpoint and the call to the fallback endpoint have failed
\* that text is "[]".
C5_GenerateNeverThrows ==
  \A r \in Reqs :
     /\ aiReturn[r].kind # "throw"
     /\ (pc[r] \in {"awaitPromise", "done"} /\ aiLog[r] # << >>) =>
          /\ aiReturn[r].kind = "return"
          /\ aiReturn[r].text # << >>
          /\ AllCallsFailed(aiLog[r]) => aiReturn[r].text = << "[", "]" >>

\* the primary endpoint was rate limited on all its attempts and the
\* fallback call failed
C5_Witness ==
  \E r \in Reqs :
     /\ aiReturn[r].kind = "return"
     /\ AllCallsFailed(aiLog[r])
     /\ Len(aiLog[r]) = 5
     /\ aiLog[r][5].ep = "fallback"

\* C6: in one generateWithAI call the primary endpoint is called at most 4
\* times, a further primary call follows only a 429 and the 2 s delay, any
\* other primary failure or a 429 on the 4th attempt is followed by the
\* fallback call, the fallback is called at most once, last and only after
\* primary failures, nothing follows a call that succeeded, and there are at
\* most 5 outbound calls.
C6_RetryPolicy ==
  \A r \in Reqs :
     LET log == aiLog[r]
         primaries == {i \in 1..Len(log) : log[i].ep = "primary"}
         fallbacks == {i \in 1..Len(log) : log[i].ep = "fallback"}
     IN /\ Cardinality(primaries) <= 4
        /\ Cardinality(fallbacks) <= 1
        /\ Len(log) <= 5
        /\ \A i \in primaries :
              i > 1 => /\ log[i - 1].ep = "primary"
                       /\ log[i - 1].out = 429
                       /\ log[i].waited
        /\ \A i \in primaries :
              (log[i].out \notin {-1, 200} /\ (log[i].out # 429 \/ i = 4)) =>
                 /\ Len(log) = i + 1
                 /\ log[i + 1].ep = "fallback"
        /\ \A i \in fallbacks :
              /\ i = Len(log)
              /\ \A j \in 1..(i - 1) :
                    log[j].ep = "primary" /\ log[j].out \notin {-1, 200}
        /\ \A i \in 1..Len(log) : log[i].out = 200 => i = Len(log)

\* four primary attempts, each rate limited, then the fallback call
C6_Witness ==
  \E r \in Reqs :
     /\ Len(aiLog[r]) = 5
     /\ \A i \in 1..4 : aiLog[r][i].ep = "primary" /\ aiLog[r][i].out = 429
     /\ aiLog[r][5].ep = "fallback"

\* C7: a LeetCode or HackerRank request with topic and description whose
\* generation calls all failed is answered with the first 5 candidates of
\* the adapter, in the adapter's order, without hints or solution entry.
C7_RawFallback ==
  \A r \in Reqs :
     (/\ pc[r] = "done"
      /\ body[r].platform \in {S_LeetCode, S_HackerRank}
      /\ ~TopicFalsy(body[r])
      /\ ~DescriptionFalsy(body[r])
      /\ aiLog[r] # << >>
      /\ AllCallsFailed(aiLog[r]))
     => /\ responses[r] =
             << [status |-> 200,
                 body |-> [recommendations |-> FirstFive(candidates[r])]] >>
        /\ \A i \in 1..Len(responses[r][1].body.recommendations) :
              responses[r][1].body.recommendations[i].title
                 \notin {S_AIHints, S_SolutionStrategy}

\* such a request, with more than 5 candidates from the adapter, is through
C7_Witness ==
  \E r \in Reqs :
     /\ pc[r] = "done"
     /\ body[r].platform = S_HackerRank
     /\ aiLog[r] # << >>
     /\ AllCallsFailed(aiLog[r])
     /\ Len(candidates[r]) > 5
     /\ Len(responses[r]) = 1

\* a YouTube request with a topic that missed the cache, started the
\* computation and got an answer (no exception) from the video adapter
VideoComputed(r) ==
  /\ body[r].platform = S_YouTube
  /\ ~TopicFalsy(body[r])
  /\ lookup[r] \in {"miss", "expired"}
  /\ joined[r].owner = 0
  /\ promise[r].state = "fulfilled"

\* C8: a YouTube request with a topic, on a cache miss, for which the video
\* adapter returns no candidate is answered { recommendations: [] } and
\* makes no call to the generation service.
C8_NoCandidatesNoGeneration ==
  \A r \in Reqs :
     (VideoComputed(r) /\ candidates[r] = << >>) =>
        /\ aiLog[r] = << >>
        /\ aiReturn[r].kind = "none"
        /\ promise[r].value = [recommendations |-> << >>]
        /\ pc[r] = "done" =>
             responses[r] = << [status |-> 200,
                                body |-> [recommendations |-> << >>]] >>

\* such a request has been answered
C8_Witness ==
  \E r \in Reqs :
     /\ VideoComputed(r)
     /\ candidates[r] = << >>
     /\ pc[r] = "done"
     /\ Len(responses[r]) = 1

\* C9: every request whose handler is through has received exactly one
\* response: 200 with { recommendations: [...] } or the generic 500.
C9_ExactlyOneResponse ==
  \A r \in Reqs :
     pc[r] = "done" =>
        /\ Len(responses[r]) = 1
        /\ \/ responses[r][1] = ErrorResponse
           \/ /\ responses[r][1].status = 200
              /\ DOMAIN responses[r][1].body = {"recommendations"}

\* C10: the profile saved by a request with a non-blank topic t (lowercased
\* and trimmed) against the loaded profile w has w'[t] = 0.98 w[t] + 1 when
\* t was in w and 1 otherwise, w'[u] = 0.98 w[u] for every other topic u,
\* and no other topic.
C10_Relation(w, w2, t) ==
  /\ ProfileTopics(w2) = ProfileTopics(w) \cup {t}
  /\ Len(w2) = Cardinality(ProfileTopics(w2))
  /\ ProfileGet(w2, t) =
       IF ProfileHas(w, t)
         THEN RatAdd(RatMul(Rat(49, 50), ProfileGet(w, t)), Rat(1, 1))
         ELSE Rat(1, 1)
  /\ \A u \in ProfileTopics(w) \ {t} :
        ProfileGet(w2, u) = RatMul(Rat(49, 50), ProfileGet(w, u))

C10_Step ==
  \A r \in Reqs :
     (GetCacheStep(r) /\ NonBlankTopic(r)) =>
        /\ body[r].userId \in DOMAIN store'
        /\ C10_Relation(loaded[r], store'[body[r].userId],
                        trim(toLowerCase(body[r].topic)))
        /\ body[r].topic = S_TopicPy =>
              ProfileHas(store'[body[r].userId], S_TopicPyLower)

C10_DecayThenReinforce == [][C10_Step]_vars

\* request r has saved its profile and gone on to the cache lookup
Saved(r) == lookup[r] # "none"

RECURSIVE Scaled(_, _)
\* w * (49/50)^n
Scaled(w, n) == IF n = 0 THEN w ELSE RatMul(Rat(49, 50), Scaled(w, n - 1))

\* the requests of user u that have saved
SavedBy(u) == {r \in Reqs : body[r].userId = u /\ Saved(r)}

\* C11: a request without a topic (absent or blank) that saves the profile
\* it loaded stores every weight multiplied by 49/50, strictly smaller and
\* still positive, with the same topics; and after n such requests of a
\* user, one after the other, every stored weight is the initial weight
\* times (49/50)^n. Platform and cache hit make no difference.
C11_Step ==
  \A r \in Reqs :
     LET u == body[r].userId
     IN (/\ GetCacheStep(r)
         /\ ~NonBlankTopic(r)
         /\ u \in DOMAIN store
         /\ loaded[r] = store[u])
        => /\ Len(store'[u]) = Len(store[u])
           /\ \A i \in 1..Len(store[u]) :
                 /\ store'[u][i].topic = store[u][i].topic
                 /\ store'[u][i].weight = RatMul(Rat(49, 50), store[u][i].weight)
                 /\ RatGreater(store[u][i].weight, store'[u][i].weight)
                 /\ RatGreater(store'[u][i].weight, Rat(0, 1))
           /\ LET rs == {q \in Reqs : body'[q].userId = u /\ lookup'[q] # "none"}
              IN (/\ \A q \in rs : ~NonBlankTopic(q)
                  /\ \A p, q \in rs : p # q => loaded[p] # loaded[q])
                 => /\ Len(store'[u]) = Len(InitialStore[u])
                    /\ \A i \in 1..Len(InitialStore[u]) :
                          store'[u][i] =
                            [topic |-> InitialStore[u][i].topic,
                             weight |-> Scaled(InitialStore[u][i].weight,
                                               Cardinality(rs))]

TemplateIndex(titles, t) == CHOOSE i \in 1..Len(titles) : titles[i] = t

\* request r, a Coursera or Udemy request with a topic, went past the cache
\* and dedup lookups, started its computation and has been answered
CatalogAnswered(r) ==
  /\ body[r].platform \in {S_Coursera, S_Udemy}
  /\ ~TopicFalsy(body[r])
  /\ promise[r].state # "none"
  /\ responses[r] # << >>

\* C12: the answer to a Coursera or Udemy request with a non-empty topic
\* holds exactly 5 of the 6 templated candidates, by non-increasing score
\* with ties in template order, the one left out scoring no higher than any
\* returned one, and every url is non-empty and contains the URL-encoded
\* topic.
C12_CatalogTopFive ==
  \A r \in Reqs :
     CatalogAnswered(r) =>
       /\ responses[r][1].status = 200
       /\ LET recs == responses[r][1].body.recommendations
              topic == body[r].topic
              titles == IF body[r].platform = S_Coursera
                          THEN courseraTitles(topic) ELSE udemyTitles(topic)
              dominant == extractDominantTopics(user[r].weightedProfile)
              sc(t) == scoreCourse(t, topic, dominant)
              returned == {recs[i].title : i \in 1..Len(recs)}
              all == {titles[i] : i \in 1..Len(titles)}
          IN /\ Len(recs) = 5
             /\ Cardinality(all) = 6
             /\ returned \subseteq all
             /\ Cardinality(returned) = 5
             /\ \A i, j \in 1..Len(recs) :
                   i < j =>
                     \/ sc(recs[i].title) > sc(recs[j].title)
                     \/ /\ sc(recs[i].title) = sc(recs[j].title)
                        /\ TemplateIndex(titles, recs[i].title)
                             < TemplateIndex(titles, recs[j].title)
             /\ \A d \in all \ returned :
                   \A t \in returned :
                      \/ sc(d) < sc(t)
                      \/ /\ sc(d) = sc(t)
                         /\ TemplateIndex(titles, t) < TemplateIndex(titles, d)
             /\ \A i \in 1..Len(recs) :
                   /\ recs[i].url # << >>
                   /\ includes(recs[i].url, encodeURIComponent(topic))

\* the number of patterns of the sequence ps that the text contains
Contained(text, ps) == Cardinality({i \in 1..Len(ps) : includes(text, ps[i])})

\* the own entries of the static topic graph
GraphTerms(t) ==
  IF t = <<"m","a","c","h","i","n","e"," ","l","e","a","r","n","i","n","g">>
       \/ t = <<"d","a","t","a"," ","s","t","r","u","c","t","u","r","e","s">>
       \/ t = <<"d","b","m","s">>
       \/ t = <<"p","y","t","h","o","n">>
    THEN topicGraph(t) ELSE << >>

\* the score the claim gives
C13_Score(title, topic, dominantTopics) ==
  LET t == toLowerCase(title)
  IN Contained(t, << toLowerCase(topic) >>) * 5
     + Contained(t, GraphTerms(toLowerCase(topic))) * 3
     + Contained(t, dominantTopics) * 2
     + Contained(t, << S_Beginner >>)
     + Contained(t, << S_Intermediate >>) * 2
     + Contained(t, << S_Advanced >>) * 3

\* C13: scoreCourse returns, for every title, topic and dominant topics it
\* is called with, 5 for the topic, 3 for each related term of the topic in
\* the topic graph (none for an unknown topic), 2 for each dominant topic
\* and 1, 2, 3 for beginner, intermediate, advanced, each counted when the
\* lowercased title contains it; score("Deep Learning Advanced",
\* "machine learning", []) is 6.
C13_ScoreCourse ==
  /\ scoreCourse(<<"D","e","e","p"," ","L","e","a","r","n","i","n","g"," ","A","d","v","a","n","c","e","d">>,
                 <<"m","a","c","h","i","n","e"," ","l","e","a","r","n","i","n","g">>,
                 << >>) = 6
  /\ \A r \in Reqs :
        (/\ body[r].platform \in {S_Coursera, S_Udemy}
         /\ ~TopicFalsy(body[r])
         /\ promise[r].state # "none")
        => LET topic == body[r].topic
               titles == IF body[r].platform = S_Coursera
                           THEN courseraTitles(topic) ELSE udemyTitles(topic)
               dominant == extractDominantTopics(user[r].weightedProfile)
           IN /\ ~scoreCourseThrows(topic)
              /\ promise[r].state = "fulfilled"
              /\ \A i \in 1..Len(titles) :
                    scoreCourse(titles[i], topic, dominant)
                      = C13_Score(titles[i], topic, dominant)

\* the getCache of request r finds an entry that has not expired
FindsLiveEntry(r) ==
  /\ GetCacheStep(r)
  /\ Key(r) \in DOMAIN responseCache
  /\ now - responseCache[Key(r)].timestamp <= CACHE_TTL

\* C14: a request whose cache lookup finds a live entry is answered with
\* exactly the cached payload and is through: it calls no provider adapter
\* and no generation endpoint, starts no computation, writes nothing to the
\* response cache and leaves pendingRequests alone, then and ever after;
\* its profile update (decay, reinforcement) has been saved all the same.
C14_Step ==
  \A r \in Reqs :
     /\ FindsLiveEntry(r) =>
          /\ responses'[r] = << [status |-> 200,
                                 body |-> responseCache[Key(r)].data] >>
          /\ lookup'[r] = "hit"
          /\ pc'[r] = "done"
          /\ responseCache' = responseCache
          /\ pendingRequests' = pendingRequests
          /\ store'[body[r].userId] = user[r].weightedProfile
          /\ user[r].weightedProfile
               = reinforceProfile(decayProfile(loaded[r]), body[r])
     /\ (lookup[r] = "hit" \/ FindsLiveEntry(r)) =>
          /\ candidates'[r] = << >>
          /\ aiLog'[r] = << >>
          /\ aiReturn'[r].kind = "none"
          /\ promise'[r].state = "none"
          /\ \A k \in DOMAIN pendingRequests' : pendingRequests'[k] # r
     /\ lookup[r] = "hit" =>
          /\ responses'[r] = responses[r]
          /\ pc'[r] = "done"

C14_CacheHitDoesNothingMore == [][C14_Step]_vars

\* a request has been answered from the cache with a payload that holds
\* recommendations, after saving a profile that differs from the loaded one
C14_Witness ==
  \E r \in Reqs :
     /\ lookup[r] = "hit"
     /\ Len(responses[r]) = 1
     /\ responses[r][1].body.recommendations # << >>
     /\ loaded[r] # user[r].weightedProfile
     /\ store[body[r].userId] = user[r].weightedProfile

\* request r has started its platform dispatch
Dispatched(r) == promise[r].state # "none"

\* C15: within one request the profile is loaded, decayed, reinforced and
\* saved before the cache lookup and the pending-request lookup; the
\* dispatch, the provider adapter and the generation calls come only after
\* both lookups missed; a request whose save (or load) failed makes no
\* lookup and no dispatch.
C15_Step ==
  \A r \in Reqs :
     LET u == body[r].userId
         saveDone == /\ pc[r] = "save"
                     /\ u \in DOMAIN store'
                     /\ store'[u] = user[r].weightedProfile
                     /\ user[r].weightedProfile
                          = reinforceProfile(decayProfile(loaded[r]), body[r])
     IN /\ lookup'[r] # lookup[r] => lookup[r] = "none" /\ saveDone
        /\ joined'[r] # joined[r] => lookup'[r] \in {"miss", "expired"} /\ saveDone
        /\ (~Dispatched(r) /\ Dispatched(r)') =>
              /\ saveDone
              /\ lookup'[r] \in {"miss", "expired"}
              /\ ~(/\ Key(r) \in DOMAIN responseCache
                   /\ now - responseCache[Key(r)].timestamp <= CACHE_TTL)
              /\ Key(r) \notin DOMAIN pendingRequests
        /\ (\/ candidates'[r] # candidates[r]
            \/ aiLog'[r] # aiLog[r]
            \/ aiReturn'[r] # aiReturn[r]) =>
              /\ lookup[r] \in {"miss", "expired"}
              /\ joined[r].owner = 0
              /\ promise[r].state = "pending"
        /\ pc[r] \in {"new", "findOne", "save"} =>
              /\ lookup[r] = "none"
              /\ ~Dispatched(r)
              /\ joined[r].owner = 0
        /\ (pc[r] = "save" /\ responses'[r] = << ErrorResponse >>) =>
              /\ lookup'[r] = "none"
              /\ ~Dispatched(r)'
              /\ pc'[r] = "done"
              /\ store' = store
              /\ responseCache' = responseCache
              /\ pendingRequests' = pendingRequests
        /\ (pc[r] = "done" /\ lookup[r] = "none") =>
              /\ lookup'[r] = "none"
              /\ ~Dispatched(r)'
              /\ candidates'[r] = << >>
              /\ aiLog'[r] = << >>

C15_OrderWithinRequest == [][C15_Step]_vars

\* one request failed at its save and was answered 500 without lookup or
\* dispatch; another went through save, both lookups, the adapter and a
\* generation call
C15_Witness ==
  \E r, q \in Reqs :
     /\ pc[r] = "done"
     /\ user[r].weightedProfile # << >>
     /\ lookup[r] = "none"
     /\ responses[r] = << ErrorResponse >>
     /\ lookup[q] = "miss"
     /\ candidates[q] # << >>
     /\ aiLog[q] # << >>
     /\ pc[q] = "done"

FirstThree(s) == [i \in 1..Min(3, Len(s)) |-> s[i]]

\* C16: a YouTube request with a topic whose adapter returned at least one
\* candidate recommends the ranked list of the generation service when the
\* service yields one and the first 3 raw candidates otherwise; when both
\* endpoints are unavailable the answer, and the value written to the
\* cache, is the first 3 raw candidates.
C16_VideoFallback ==
  \A r \in Reqs :
     (/\ VideoComputed(r)
      /\ candidates[r] # << >>)
     => LET raw == [recommendations |-> FirstThree(candidates[r])]
            ranked == rankWithGemini(aiReturn[r].text)
        IN /\ AllCallsFailed(aiLog[r]) =>
                /\ promise[r].value = raw
                /\ Key(r) \in DOMAIN responseCache
                /\ responseCache[Key(r)].data = raw
                /\ pc[r] = "done" => responses[r] = << OkResponse(raw) >>
           /\ ~AllCallsFailed(aiLog[r]) =>
                promise[r].value =
                  IF ranked.isNull THEN raw
                  ELSE [recommendations |-> ranked.value]

\* request r, a practice-problem request, has computed its result, and the
\* result is the raw fallback: the first 5 candidates, no hints entry
FellBack(r) ==
  /\ body[r].platform \in {S_LeetCode, S_HackerRank}
  /\ aiReturn[r].kind # "none"
  /\ promise[r].state = "fulfilled"
  /\ promise[r].value = [recommendations |-> FirstFive(candidates[r])]

\* ... and the result is the one assembled from the generation answer
Assembled(r) ==
  /\ body[r].platform \in {S_LeetCode, S_HackerRank}
  /\ aiReturn[r].kind # "none"
  /\ promise[r].state = "fulfilled"
  /\ \E i \in 1..Len(promise[r].value.recommendations) :
        promise[r].value.recommendations[i].title = S_AIHints

\* C17: a LeetCode request that falls back writes the fallback to the
\* response cache under its key, and a later request with that key within
\* the TTL is answered with it without adapter or generation call; a
\* HackerRank request that falls back leaves the response cache unchanged,
\* and the next request with that key misses the cache and, no computation
\* being registered for the key, computes again; both platforms cache the
\* result assembled from the generation answer. (A later request is taken
\* with no third computation for the key in between.)
C17_Step ==
  \A r \in Reqs :
     /\ (InFlight(r) /\ FellBack(r)') =>
           IF body[r].platform = S_LeetCode
             THEN /\ Key(r) \in DOMAIN responseCache'
                  /\ responseCache'[Key(r)] =
                       [data |-> promise'[r].value, timestamp |-> now]
             ELSE responseCache' = responseCache
     /\ (InFlight(r) /\ Assembled(r)') =>
           /\ Key(r) \in DOMAIN responseCache'
           /\ responseCache'[Key(r)] =
                [data |-> promise'[r].value, timestamp |-> now]
     /\ \A q \in Reqs \ {r} :
           (/\ GetCacheStep(q)
            /\ Key(q) = Key(r)
            /\ FellBack(r)
            /\ pc[r] = "done"
            /\ \A p \in Reqs \ {r} : Key(p) = Key(r) => ~Dispatched(p))
           => IF body[r].platform = S_LeetCode
                THEN (/\ Key(r) \in DOMAIN responseCache
                      /\ now - responseCache[Key(r)].timestamp <= CACHE_TTL) =>
                        /\ lookup'[q] = "hit"
                        /\ responses'[q] = << OkResponse(promise[r].value) >>
                        /\ candidates'[q] = << >>
                        /\ aiLog'[q] = << >>
                        /\ pc'[q] = "done"
                ELSE /\ lookup'[q] = "miss"
                     /\ Key(q) \notin DOMAIN pendingRequests =>
                           /\ pc'[q] = "fetchLeetCode"
                           /\ promise'[q].state = "pending"

C17_OnlyLeetCodeCachesFallback == [][C17_Step]_vars

\* a HackerRank request fell back with candidates and was answered, and the
\* next request with its key found nothing in the cache and computed again
C17_Witness ==
  \E r, q \in Reqs :
     /\ r # q
     /\ body[r].platform = S_HackerRank
     /\ FellBack(r)
     /\ candidates[r] # << >>
     /\ pc[r] = "done"
     /\ Key(q) = Key(r)
     /\ lookup[q] = "miss"
     /\ FellBack(q)
     /\ Key(r) \notin DOMAIN responseCache

\* request r is one the course-catalog branch, the unknown-platform branch
\* or an early return for a missing field answers, once it is dispatched
LocalBranch(r) ==
  \/ body[r].platform \in {S_Coursera, S_Udemy}
  \/ body[r].platform \notin {S_LeetCode, S_HackerRank, S_YouTube}
  \/ /\ body[r].platform \in {S_LeetCode, S_HackerRank}
     /\ TopicFalsy(body[r]) \/ DescriptionFalsy(body[r])
  \/ /\ body[r].platform = S_YouTube
     /\ TopicFalsy(body[r])

\* a step of the handler of request r
StepOf(r) == pc'[r] # pc[r]

\* what a request answered by such a branch does not do, the response cache
\* apart
C18_NoCallsNoHit ==
  /\ \A r \in Reqs :
        (LocalBranch(r) /\ StepOf(r) /\ Dispatched(r)') =>
           /\ candidates'[r] = << >>
           /\ aiLog'[r] = << >>
           /\ aiReturn'[r].kind = "none"
           /\ pc'[r] \in {"awaitPromise", "done"}
           /\ promise'[r].state \in {"fulfilled", "rejected"}
  /\ (\A q \in Reqs : pc'[q] # "new" => LocalBranch(q)') =>
        /\ DOMAIN responseCache' = {}
        /\ \A q \in Reqs : lookup'[q] # "hit"
        /\ \A q \in Reqs :
              (pc'[q] = "done" /\ Len(responses'[q]) = 1
                 /\ responses'[q][1].status = 200) => Dispatched(q)'

\* C18 as claimed: a request answered by the course-catalog branch, the
\* unknown-platform branch or a missing-field early return calls no adapter
\* and no generation endpoint and leaves the response cache unchanged; no
\* sequence of such requests has a cache hit, each computes its own result.
C18_Original_Step ==
  /\ C18_NoCallsNoHit
  /\ \A r \in Reqs :
        (LocalBranch(r) /\ StepOf(r) /\ Dispatched(r)') =>
           responseCache' = responseCache

C18_LocalBranchesLeaveCacheUnchanged == [][C18_Original_Step]_vars

\* C18 as amended: such a request writes no entry to the response cache;
\* the one change it can make is that its getCache deletes an expired entry
\* stored under its own key.
C18_Amended_Step ==
  /\ C18_NoCallsNoHit
  /\ \A r \in Reqs :
        (LocalBranch(r) /\ StepOf(r) /\ Dispatched(r)') =>
           \/ responseCache' = responseCache
           \/ /\ GetCacheStep(r)
              /\ Key(r) \in DOMAIN responseCache
              /\ now - responseCache[Key(r)].timestamp > CACHE_TTL
              /\ DOMAIN responseCache' = DOMAIN responseCache \ {Key(r)}
              /\ \A k \in DOMAIN responseCache' :
                    responseCache'[k] = responseCache[k]

C18_LocalBranchesWriteNoEntry == [][C18_Amended_Step]_vars

\* a LeetCode request without description found the expired entry of an
\* earlier request with its key, deleted it, and was answered by the early
\* return
C18_Witness ==
  \E r \in Reqs :
     /\ LocalBranch(r)
     /\ body[r].platform = S_LeetCode
     /\ lookup[r] = "expired"
     /\ Key(r) \notin DOMAIN responseCache
     /\ responses[r] = << OkResponse(EmptyResult) >>

RECURSIVE SequentialOutcomes(_, _)
\* the profiles that result from applying the updates of the requests rs to
\* the profile w one after another, in any order
SequentialOutcomes(w, rs) ==
  IF rs = {} THEN {w}
  ELSE UNION { SequentialOutcomes(
                 reinforceProfile(decayProfile(w), body[r]), rs \ {r}) :
               r \in rs }

\* the requests of user u that have loaded the profile
LoadedBy(u) == {r \in Reqs : body[r].userId = u /\ pc[r] \notin {"new", "findOne"}}

\* C19: once all requests of a user that loaded the profile have saved, the
\* stored profile is the result of applying their decay-and-reinforce
\* updates one after another in some order, and it is the user's one
\* profile.
C19_SerializableUpdates ==
  \A u \in Users :
     (/\ LoadedBy(u) # {}
      /\ LoadedBy(u) = SavedBy(u))
     => /\ u \in DOMAIN store
        /\ store[u] \in SequentialOutcomes(
                          IF u \in DOMAIN InitialStore
                            THEN InitialStore[u] ELSE EmptyProfile,
                          SavedBy(u))

\* the generation service answered request r, whose prompt carried the
\* profile summary of r's user, and r's result is built from that answer
RankedWithProfile(r) ==
  /\ promise[r].state = "fulfilled"
  /\ aiReturn[r].kind = "return"
  /\ ~AllCallsFailed(aiLog[r])
  /\ \/ /\ body[r].platform = S_YouTube
        /\ ~rankWithGemini(aiReturn[r].text).isNull
     \/ Assembled(r)

\* C20: what a user is answered depends on the request, the adapter and
\* generation answers obtained for it and the user's own profile: no
\* request is answered with a result that the generation service ranked
\* for the profile summary of another user.
C20_NoResultOfAnotherUser ==
  \A q, r \in Reqs :
     (/\ q # r
      /\ RankedWithProfile(r)
      /\ Key(r) = Key(q)
      /\ ~Dispatched(q)
      /\ responses[q] = << OkResponse(promise[r].value) >>)
     => body[r].userId = body[q].userId
====
